---------------------------- MODULE Spec2Model ----------------------------
(***************************************************************************)
(* A model of the expression tree of src/weld/ast.rs and of its five tree  *)
(* algorithms: children, compare_ignoring_symbols, substitute, traverse    *)
(* and transform.                                                          *)
(*                                                                         *)
(* An Expr<T> is a record [kind, ty, ...fields of the kind].  An           *)
(* Option<Box<Expr>> is a sequence of length 0 (None) or 1 (Some).  A      *)
(* position in a tree is the sequence of child indices (1-based, in the    *)
(* order children() enumerates) that leads to it from the root.            *)
(***************************************************************************)
EXTENDS Integers, Sequences, FiniteSets, TLC

VARIABLES
    call,      \* which algorithm the run exercises
    pc,        \* "start" -> ("run" ->) "done"
    e1,        \* the receiver (&self / &mut self)
    e2,        \* compare: the other tree; substitute: the replacement
    symbol,    \* substitute: the target symbol
    rw,        \* transform: the rewriter (the closure `func`)
    result,    \* compare: the WeldResult<bool>; substitute/transform: the tree afterwards
    pending,   \* transform: positions whose transform() call has not started yet
    log        \* traverse / transform: the calls of the closure, in order

vars == <<call, pc, e1, e2, symbol, rw, result, pending, log>>

-----------------------------------------------------------------------------
(* Bounds of the model.                                                    *)

\* Symbol ids range over 0..MaxId.
MaxId == 1
\* Integer literals range over 0..MaxLit.
MaxLit == 1
\* A For node of the receiver zips 1..MaxIters iters.
MaxIters == 2
\* Rewriter calls made by one transform() run (guards the unbounded recursion).
MaxCalls == 12

-----------------------------------------------------------------------------
(* Data model: Symbol, Parameter, Iter, Expr / ExprKind.                   *)

Names == {"a", "b"}

Symbol(n, i) == [name |-> n, id |-> i]

\* The symbols the receiver is built from; name "b" and id MaxId + 1 stay fresh.
Syms == {Symbol("a", i) : i \in 0..MaxId}

AllSyms == {Symbol(n, i) : n \in Names, i \in 0..(MaxId + 1)}

Parameter(s, t) == [name |-> s, ty |-> t]

\* f32 / f64 values: two ordinary numbers and NaN.
Floats == {"0.0", "1.0", "NaN"}

\* f32::eq / f64::eq: IEEE equality, under which NaN differs from itself.
FloatEq(l, r) == l # "NaN" /\ r # "NaN" /\ l = r

BoolLiteral(t, v) == [kind |-> "BoolLiteral", ty |-> t, bval |-> v]
I32Literal(t, v) == [kind |-> "I32Literal", ty |-> t, val |-> v]
I64Literal(t, v) == [kind |-> "I64Literal", ty |-> t, val |-> v]
F32Literal(t, v) == [kind |-> "F32Literal", ty |-> t, fval |-> v]
F64Literal(t, v) == [kind |-> "F64Literal", ty |-> t, fval |-> v]
Ident(t, s) == [kind |-> "Ident", ty |-> t, sym |-> s]
BinOp(t, k, l, r) == [kind |-> "BinOp", ty |-> t, op |-> k, left |-> l, right |-> r]
MakeStruct(t, es) == [kind |-> "MakeStruct", ty |-> t, elems |-> es]
MakeVector(t, es) == [kind |-> "MakeVector", ty |-> t, elems |-> es]
GetField(t, e, i) == [kind |-> "GetField", ty |-> t, expr |-> e, index |-> i]
Length(t, d) == [kind |-> "Length", ty |-> t, data |-> d]
Let(t, s, v, b) == [kind |-> "Let", ty |-> t, name |-> s, value |-> v, body |-> b]
If(t, c, x, y) == [kind |-> "If", ty |-> t, cond |-> c, on_true |-> x, on_false |-> y]
Lambda(t, ps, b) == [kind |-> "Lambda", ty |-> t, params |-> ps, body |-> b]
Apply(t, f, ps) == [kind |-> "Apply", ty |-> t, func |-> f, params |-> ps]
NewBuilder(t) == [kind |-> "NewBuilder", ty |-> t]
For(t, is, b, f) == [kind |-> "For", ty |-> t, iters |-> is, builder |-> b, func |-> f]
Merge(t, b, v) == [kind |-> "Merge", ty |-> t, builder |-> b, value |-> v]
Res(t, b) == [kind |-> "Res", ty |-> t, builder |-> b]

\* Iter { data, start, end, stride }: the three options are sequences of length <= 1.
Iter(d, s, e, st) == [data |-> d, start |-> s, end |-> e, stride |-> st]

-----------------------------------------------------------------------------
(* children / children_mut.                                                *)

\* Mutant of IterChildren: end pushed before start.
IterChildrenEndFirst(it) == <<it.data>> \o it.end \o it.start \o it.stride

\* The pushes of one iter in the For arm: data, then start, end, stride when present.
IterChildren(it) == <<it.data>> \o it.start \o it.end \o it.stride

RECURSIVE ItersChildren(_)
ItersChildren(iters) ==
    IF iters = <<>> THEN <<>>
    ELSE IterChildren(Head(iters)) \o ItersChildren(Tail(iters))

\* The For arm of children(): every iter's children, then builder, then func.
ForChildren(e) == ItersChildren(e.iters) \o <<e.builder, e.func>>

\* Expr::children: the immediate sub-expressions, in order.
Children(e) ==
    CASE e.kind = "BinOp" -> <<e.left, e.right>>
      [] e.kind = "Let" -> <<e.value, e.body>>
      [] e.kind = "Lambda" -> <<e.body>>
      [] e.kind = "MakeStruct" -> e.elems
      [] e.kind = "MakeVector" -> e.elems
      [] e.kind = "GetField" -> <<e.expr>>
      [] e.kind = "Length" -> <<e.data>>
      [] e.kind = "Merge" -> <<e.builder, e.value>>
      [] e.kind = "Res" -> <<e.builder>>
      [] e.kind = "For" -> ForChildren(e)
      [] e.kind = "If" -> <<e.cond, e.on_true, e.on_false>>
      [] e.kind = "Apply" -> <<e.func>> \o e.params
      [] e.kind \in {"BoolLiteral", "I32Literal", "I64Literal", "F32Literal",
                     "F64Literal", "Ident", "NewBuilder"} -> <<>>

\* The number of children one iter contributes.
IterWidth(it) == 1 + Len(it.start) + Len(it.end) + Len(it.stride)

\* One iter with its children overwritten by the first IterWidth(it) entries of cs.
IterWith(it, cs) ==
    [data |-> cs[1],
     start |-> IF it.start = <<>> THEN <<>> ELSE <<cs[2]>>,
     end |-> IF it.end = <<>> THEN <<>> ELSE <<cs[2 + Len(it.start)]>>,
     stride |-> IF it.stride = <<>> THEN <<>>
                ELSE <<cs[2 + Len(it.start) + Len(it.end)]>>]

RECURSIVE ItersWith(_, _)
ItersWith(iters, cs) ==
    IF iters = <<>> THEN <<>>
    ELSE <<IterWith(Head(iters), cs)>>
         \o ItersWith(Tail(iters), SubSeq(cs, IterWidth(Head(iters)) + 1, Len(cs)))

\* Expr::children_mut, used as the caller uses it: the node with the targets of its
\* mutable child references overwritten by cs (Len(cs) = Len(Children(e))).
WithChildren(e, cs) ==
    CASE e.kind = "BinOp" -> [e EXCEPT !.left = cs[1], !.right = cs[2]]
      [] e.kind = "Let" -> [e EXCEPT !.value = cs[1], !.body = cs[2]]
      [] e.kind = "Lambda" -> [e EXCEPT !.body = cs[1]]
      [] e.kind = "MakeStruct" -> [e EXCEPT !.elems = cs]
      [] e.kind = "MakeVector" -> [e EXCEPT !.elems = cs]
      [] e.kind = "GetField" -> [e EXCEPT !.expr = cs[1]]
      [] e.kind = "Length" -> [e EXCEPT !.data = cs[1]]
      [] e.kind = "Merge" -> [e EXCEPT !.builder = cs[1], !.value = cs[2]]
      [] e.kind = "Res" -> [e EXCEPT !.builder = cs[1]]
      [] e.kind = "For" ->
            [e EXCEPT !.iters = ItersWith(e.iters, cs),
                      !.builder = cs[Len(cs) - 1],
                      !.func = cs[Len(cs)]]
      [] e.kind = "If" -> [e EXCEPT !.cond = cs[1], !.on_true = cs[2], !.on_false = cs[3]]
      [] e.kind = "Apply" -> [e EXCEPT !.func = cs[1], !.params = Tail(cs)]
      [] OTHER -> e

-----------------------------------------------------------------------------
(* compare_ignoring_symbols.  A WeldResult<bool> is "OkTrue", "OkFalse" or  *)
(* "Err".  sym_map is a set of pairs <<symbol of e1, symbol of e2>> with at *)
(* most one pair per left symbol.  Every call returns the result, the map   *)
(* as the call leaves it (the map is one &mut HashMap shared by the whole   *)
(* walk) and n, the number of calls of _compare_ignoring_symbols so far.    *)

\* HashMap::insert: the pair replaces any pair with the same key.
MapInsert(map, k, v) == {p \in map : p[1] # k} \cup {<<k, v>>}

\* HashMap::get(k).is_some()
MapHas(map, k) == \E p \in map : p[1] = k

\* *HashMap::get(k).unwrap()
MapGet(map, k) == (CHOOSE p \in map : p[1] = k)[2]

\* The Lambda arm's test: equal length and pairwise equal parameter types.
ParamsMatch(ps1, ps2) ==
    /\ Len(ps1) = Len(ps2)
    /\ \A i \in 1..Len(ps1) : ps1[i].ty = ps2[i].ty

\* The Lambda arm's loop: insert p1.name -> p2.name for each zipped pair, in order.
RECURSIVE InsertParams(_, _, _, _)
InsertParams(map, ps1, ps2, i) ==
    IF i > Len(ps1) THEN map
    ELSE InsertParams(MapInsert(map, ps1[i].name, ps2[i].name), ps1, ps2, i + 1)

\* Mutant of IdentArm: an unmapped left symbol counts as an ordinary mismatch.
IdentArmNoError(x, y, map) ==
    IF MapHas(map, x.sym)
    THEN [res |-> IF MapGet(map, x.sym) = y.sym THEN "OkTrue" ELSE "OkFalse", map |-> map]
    ELSE [res |-> "OkFalse", map |-> map]

\* The Ident arm: the left symbol must be mapped, and mapped to the right symbol.
IdentArm(x, y, map) ==
    IF MapHas(map, x.sym)
    THEN [res |-> IF MapGet(map, x.sym) = y.sym THEN "OkTrue" ELSE "OkFalse", map |-> map]
    ELSE [res |-> "Err", map |-> map]

\* The Let arm: record name1 -> name2.
LetArm(x, y, map) == [res |-> "OkTrue", map |-> MapInsert(map, x.name, y.name)]

\* The Lambda arm.
LambdaArm(x, y, map) ==
    IF ParamsMatch(x.params, y.params)
    THEN [res |-> "OkTrue", map |-> InsertParams(map, x.params, y.params, 1)]
    ELSE [res |-> "OkFalse", map |-> map]

\* Mutant of GuardedArm: the I32Literal arm has lost its guard.
GuardedArmNoI32Guard(x, y) ==
    CASE x.kind = "BinOp" -> x.op = y.op
      [] x.kind = "GetField" -> x.index = y.index
      [] x.kind = "BoolLiteral" -> x.bval = y.bval
      [] x.kind = "I32Literal" -> TRUE
      [] x.kind = "I64Literal" -> x.val = y.val
      [] x.kind \in {"F32Literal", "F64Literal"} -> FloatEq(x.fval, y.fval)

\* The arms that compare one non-expression field under a guard.
GuardedArm(x, y) ==
    CASE x.kind = "BinOp" -> x.op = y.op
      [] x.kind = "GetField" -> x.index = y.index
      [] x.kind = "BoolLiteral" -> x.bval = y.bval
      [] x.kind \in {"I32Literal", "I64Literal"} -> x.val = y.val
      [] x.kind \in {"F32Literal", "F64Literal"} -> FloatEq(x.fval, y.fval)

\* The match on (&e1.kind, &e2.kind) that computes same_kind.
SameKind(x, y, map) ==
    IF x.kind # y.kind THEN [res |-> "OkFalse", map |-> map]
    ELSE CASE x.kind = "Let" -> LetArm(x, y, map)
           [] x.kind = "Lambda" -> LambdaArm(x, y, map)
           [] x.kind = "Ident" -> IdentArm(x, y, map)
           [] x.kind \in {"NewBuilder", "MakeStruct", "MakeVector", "Length", "Merge",
                          "Res", "For", "If", "Apply"} ->
                [res |-> "OkTrue", map |-> map]
           [] OTHER ->
                [res |-> IF GuardedArm(x, y) THEN "OkTrue" ELSE "OkFalse", map |-> map]

RECURSIVE CompareRec(_, _, _, _)
RECURSIVE CompareChildren(_, _, _, _, _)

\* The loop over the zipped children: the first Err or Ok(false) is returned.
CompareChildren(cs1, cs2, i, map, n) ==
    IF i > Len(cs1) THEN [res |-> "OkTrue", map |-> map, n |-> n]
    ELSE LET r == CompareRec(cs1[i], cs2[i], map, n)
         IN  IF r.res # "OkTrue" THEN r
             ELSE CompareChildren(cs1, cs2, i + 1, r.map, r.n)

\* _compare_ignoring_symbols(e1, e2, sym_map); n counts the calls made before it.
CompareRec(x, y, map, n) ==
    IF x.ty # y.ty THEN [res |-> "OkFalse", map |-> map, n |-> n + 1]
    ELSE LET k == SameKind(x, y, map)
         IN  IF k.res # "OkTrue" THEN [res |-> k.res, map |-> k.map, n |-> n + 1]
             ELSE IF Len(Children(x)) # Len(Children(y))
                  THEN [res |-> "OkFalse", map |-> k.map, n |-> n + 1]
                  ELSE CompareChildren(Children(x), Children(y), 1, k.map, n + 1)

\* Expr::compare_ignoring_symbols(&self, other): the walk from an empty map.
CompareWalk(x, y) == CompareRec(x, y, {}, 0)

compare_ignoring_symbols(x, y) == CompareWalk(x, y).res

-----------------------------------------------------------------------------
(* substitute.                                                             *)

RECURSIVE substitute(_, _, _)
RECURSIVE SubstituteAll(_, _, _)

\* The loop `for c in self.children_mut() { c.substitute(..) }` over a child list.
SubstituteAll(cs, s, r) ==
    IF cs = <<>> THEN <<>>
    ELSE <<substitute(Head(cs), s, r)>> \o SubstituteAll(Tail(cs), s, r)

\* Mutant of SubstituteLet: a Let that redefines the symbol is skipped whole.
SubstituteLetSkipValue(e, s, r) ==
    IF e.name # s
    THEN [e EXCEPT !.value = substitute(e.value, s, r), !.body = substitute(e.body, s, r)]
    ELSE e

\* The Let arm: always the value; the body unless the Let redefines the symbol.
SubstituteLet(e, s, r) ==
    [e EXCEPT !.value = substitute(e.value, s, r),
              !.body = IF e.name # s THEN substitute(e.body, s, r) ELSE e.body]

\* Mutant of SubstituteLambda: only the first parameter is checked.
SubstituteLambdaFirstParam(e, s, r) ==
    IF e.params = <<>> \/ e.params[1].name # s
    THEN [e EXCEPT !.body = substitute(e.body, s, r)]
    ELSE e

\* The Lambda arm: the body unless a parameter redefines the symbol.
SubstituteLambda(e, s, r) ==
    IF \A i \in 1..Len(e.params) : e.params[i].name # s
    THEN [e EXCEPT !.body = substitute(e.body, s, r)]
    ELSE e

\* Expr::substitute(&mut self, symbol, replacement): the receiver afterwards.
substitute(e, s, r) ==
    IF e.kind = "Ident" /\ e.sym = s THEN r
    ELSE CASE e.kind = "Let" -> SubstituteLet(e, s, r)
           [] e.kind = "Lambda" -> SubstituteLambda(e, s, r)
           [] OTHER -> WithChildren(e, SubstituteAll(Children(e), s, r))

-----------------------------------------------------------------------------
(* traverse.                                                               *)

RECURSIVE TraverseFrom(_, _)
RECURSIVE TraverseChildren(_, _, _)

\* The loop `for c in self.children() { c.traverse(func) }` from child i on.
TraverseChildren(cs, p, i) ==
    IF i > Len(cs) THEN <<>>
    ELSE TraverseFrom(cs[i], p \o <<i>>) \o TraverseChildren(cs, p, i + 1)

\* Expr::traverse on the node at position p: the calls of func it makes, in order.
TraverseFrom(e, p) == <<[pos |-> p, node |-> e]>> \o TraverseChildren(Children(e), p, 1)

traverse(e) == TraverseFrom(e, <<>>)

-----------------------------------------------------------------------------
(* Positions.                                                              *)

\* The sub-expression at position p.
RECURSIVE Sub(_, _)
Sub(e, p) == IF p = <<>> THEN e ELSE Sub(Children(e)[Head(p)], Tail(p))

\* Whether p is a position of e.
RECURSIVE HasPos(_, _)
HasPos(e, p) ==
    \/ p = <<>>
    \/ /\ Head(p) \in 1..Len(Children(e))
       /\ HasPos(Children(e)[Head(p)], Tail(p))

\* `*slot = x` for the slot at position p (a &mut Expr reached through children_mut).
RECURSIVE ReplaceAt(_, _, _)
ReplaceAt(e, p, x) ==
    IF p = <<>> THEN x
    ELSE WithChildren(e, [Children(e) EXCEPT ![Head(p)] = ReplaceAt(@, Tail(p), x)])

\* p is a proper prefix of q: the node at p is a proper ancestor of the node at q.
IsAncestor(p, q) == Len(p) < Len(q) /\ SubSeq(q, 1, Len(p)) = p

-----------------------------------------------------------------------------
(* The trees the runs are given.                                           *)

Lit(v) == I32Literal("I32", v)
Var(s) == Ident("I32", s)
Param(s) == Parameter(s, "I32")

\* Leaves: the integer literals and the identifiers.
Atoms == {Lit(v) : v \in 0..MaxLit} \cup {Var(s) : s \in Syms}

\* The other childless kinds.
OtherLeaves ==
    {BoolLiteral("Bool", TRUE), I64Literal("I64", 0), F64Literal("F64", "1.0"),
     NewBuilder("B")}
    \cup {F32Literal("F32", f) : f \in Floats}

\* Parameter lists of length 0, 1 and 2.
ParamLists ==
    {<<>>} \cup {<<Param(s)>> : s \in Syms} \cup {<<Param(s), Param(t)>> : s, t \in Syms}

\* One binder or operator over the children in X and Y.
BinOps(X, Y) == {BinOp("I32", "Add", x, y) : x \in X, y \in Y}
Lets(X, Y) == {Let("I32", s, x, y) : s \in Syms, x \in X, y \in Y}
Lambdas(P, X) == {Lambda("Fn", ps, x) : ps \in P, x \in X}

\* Every other kind with children, over one child x.
OtherKinds(x) ==
    {MakeStruct("S", <<x, Lit(0)>>), MakeVector("V", <<x>>), MakeVector("V", <<>>),
     GetField("I32", x, 0), Length("I64", x), Merge("B", NewBuilder("B"), x),
     Res("V", x), If("I32", BoolLiteral("Bool", TRUE), x, Lit(0)),
     Apply("I32", Lambda("Fn", <<Param(Symbol("a", 0))>>, x), <<x>>),
     BinOp("F32", "Multiply", x, F32Literal("F32", "NaN"))}

Level1 == BinOps(Atoms, Atoms) \cup Lets(Atoms, Atoms) \cup Lambdas(ParamLists, Atoms)

Level1Other == UNION {OtherKinds(x) : x \in Atoms}

Level2 ==
    Lets(Atoms, Level1) \cup BinOps(Level1, Atoms) \cup BinOps(Atoms, Level1)
    \cup Lambdas({<<Param(s)>> : s \in Syms}, Level1)
    \cup Lets({Lit(0)}, Level1Other)

\* Two nested Lets around an operator.
Level3 == Lets({Lit(0)}, Lets(Atoms, BinOps(Atoms, Atoms)))

\* The 8 iters over fixed children: each of start, end, stride absent or present.
IterShapes ==
    {Iter(Lit(0), s, e, st) : s \in {<<>>, <<Lit(0)>>}, e \in {<<>>, <<Lit(1)>>},
                              st \in {<<>>, <<I64Literal("I64", 0)>>}}

\* The sequences of exactly n iters.
RECURSIVE IterSeqs(_)
IterSeqs(n) ==
    IF n = 0 THEN {<<>>}
    ELSE {<<it>> \o is : it \in IterShapes, is \in IterSeqs(n - 1)}

\* The function of a For: |b, x| merge(b, x).
ForFunc ==
    Lambda("Fn", <<Parameter(Symbol("a", 0), "B"), Param(Symbol("a", 1))>>,
           Merge("B", Ident("B", Symbol("a", 0)), Var(Symbol("a", 1))))

\* The For nodes over exactly n iters.
ForsOf(n) == {For("B", is, NewBuilder("B"), ForFunc) : is \in IterSeqs(n)}

ForTrees == UNION {ForsOf(n) : n \in 1..MaxIters}

\* Every tree a run may be given as its receiver.
Trees == Atoms \cup OtherLeaves \cup Level1 \cup Level1Other \cup Level2 \cup Level3
    \cup ForTrees

-----------------------------------------------------------------------------
(* Scoping vocabulary of the properties (lexical scope, as the data model   *)
(* defines it: a Let binds its name in its body only, a Lambda binds its    *)
(* parameters in its body).                                                *)

ParamNames(ps) == {ps[i].name : i \in 1..Len(ps)}

\* The symbols the node e binds in its child number i.
BoundIn(e, i) ==
    CASE e.kind = "Let" /\ i = 2 -> {e.name}
      [] e.kind = "Lambda" -> ParamNames(e.params)
      [] OTHER -> {}

\* The positions (below prefix p) of the Idents of e that no enclosing binder of e
\* binds, B being the symbols bound around e.
RECURSIVE FreePos(_, _, _)
FreePos(e, p, B) ==
    IF e.kind = "Ident" THEN (IF e.sym \in B THEN {} ELSE {p})
    ELSE UNION {FreePos(Children(e)[i], p \o <<i>>, B \cup BoundIn(e, i)) :
                    i \in 1..Len(Children(e))}

FreeIdents(e) == FreePos(e, <<>>, {})

Closed(e) == FreeIdents(e) = {}

\* The positions where Ident(s) occurs free in e.
FreeOccurrences(e, s) == {p \in FreeIdents(e) : Sub(e, p).sym = s}

\* The positions of e, in pre-order.
PreOrder(e) == LET t == traverse(e) IN [i \in 1..Len(t) |-> t[i].pos]

\* The positions of e, below prefix p.
RECURSIVE PositionsFrom(_, _)
PositionsFrom(e, p) ==
    {p} \cup UNION {PositionsFrom(Children(e)[i], p \o <<i>>) : i \in 1..Len(Children(e))}

Positions(e) == PositionsFrom(e, <<>>)

\* The node e is a Let or Lambda that binds s.
Binds(e, s) ==
    \/ e.kind = "Let" /\ e.name = s
    \/ e.kind = "Lambda" /\ s \in ParamNames(e.params)

\* The pre-order indices of the Idents of e that no Let or Lambda earlier in
\* pre-order binds: the Idents a top-down, left-to-right walk meets unrecorded.
WalkFree(e) ==
    LET t == traverse(e)
    IN  {i \in 1..Len(t) :
            /\ t[i].node.kind = "Ident"
            /\ \A j \in 1..(i - 1) : ~Binds(t[j].node, t[i].node.sym)}

Min(S) == CHOOSE x \in S : \A y \in S : x <= y

\* e with the bound symbols renamed by rho: every Let name, every Lambda parameter
\* and every Ident that refers to one of them (B: the symbols bound around e).
RECURSIVE Rename(_, _, _)
RECURSIVE RenameAll(_, _, _, _, _)
RenameAll(e, cs, i, rho, B) ==
    IF i > Len(cs) THEN <<>>
    ELSE <<Rename(cs[i], rho, B \cup BoundIn(e, i))>> \o RenameAll(e, cs, i + 1, rho, B)

Rename(e, rho, B) ==
    IF e.kind = "Ident" THEN (IF e.sym \in B THEN [e EXCEPT !.sym = rho[@]] ELSE e)
    ELSE LET r == WithChildren(e, RenameAll(e, Children(e), 1, rho, B))
         IN  CASE e.kind = "Let" -> [r EXCEPT !.name = rho[@]]
               [] e.kind = "Lambda" ->
                    [r EXCEPT !.params =
                        [i \in 1..Len(e.params) |-> [e.params[i] EXCEPT !.name = rho[@]]]]
               [] OTHER -> r

\* Renamings that keep distinct symbols distinct.
IncId == [s \in Syms |-> Symbol(s.name, s.id + 1)]
ToB == [s \in Syms |-> Symbol("b", s.id)]
Rotate == [s \in Syms |-> Symbol(s.name, (s.id + 1) % (MaxId + 1))]
Injective == {IncId, ToB, Rotate}

\* A renaming that sends every symbol to the same one.
Collapse == [s \in Syms |-> Symbol("a", 0)]

\* Alpha-equivalence: equal kinds, annotations and fields, equal child counts, and
\* every Ident pair either bound by corresponding binders (the innermost binder of
\* either symbol is the same pair) or free on both sides with the same symbol.
\* scope is the stack of <<left, right>> binder pairs around the nodes, innermost last.
RECURSIVE Resolves(_, _, _)
Resolves(scope, l, r) ==
    IF scope = <<>> THEN l = r
    ELSE LET top == scope[Len(scope)]
         IN  IF top[1] = l \/ top[2] = r THEN top[1] = l /\ top[2] = r
             ELSE Resolves(SubSeq(scope, 1, Len(scope) - 1), l, r)

RECURSIVE PushParams(_, _, _, _)
PushParams(scope, ps1, ps2, i) ==
    IF i > Len(ps1) THEN scope
    ELSE PushParams(Append(scope, <<ps1[i].name, ps2[i].name>>), ps1, ps2, i + 1)

ScopeIn(x, y, i, scope) ==
    CASE x.kind = "Let" /\ i = 2 -> Append(scope, <<x.name, y.name>>)
      [] x.kind = "Lambda" -> PushParams(scope, x.params, y.params, 1)
      [] OTHER -> scope

\* The non-expression fields of a node other than symbols: its own data.
OwnFields(x) ==
    CASE x.kind = "BinOp" -> <<x.op>>
      [] x.kind = "GetField" -> <<x.index>>
      [] x.kind = "BoolLiteral" -> <<x.bval>>
      [] x.kind \in {"I32Literal", "I64Literal"} -> <<x.val>>
      [] x.kind \in {"F32Literal", "F64Literal"} -> <<x.fval>>
      [] x.kind = "Lambda" -> [i \in 1..Len(x.params) |-> x.params[i].ty]
      [] x.kind = "For" -> [i \in 1..Len(x.iters) |->
                              <<Len(x.iters[i].start), Len(x.iters[i].end),
                                Len(x.iters[i].stride)>>]
      [] OTHER -> <<>>

RECURSIVE AlphaEq(_, _, _)
AlphaEq(x, y, scope) ==
    /\ x.kind = y.kind
    /\ x.ty = y.ty
    /\ OwnFields(x) = OwnFields(y)
    /\ Len(Children(x)) = Len(Children(y))
    /\ x.kind = "Ident" => Resolves(scope, x.sym, y.sym)
    /\ \A i \in 1..Len(Children(x)) :
            AlphaEq(Children(x)[i], Children(y)[i], ScopeIn(x, y, i, scope))

\* One-to-one correspondence of the bound symbols: at no place of the paired trees
\* do two different symbols visible in x correspond to the same symbol of y.
\* vis is the set of <<left, right>> pairs visible around the nodes.
Shadow(vis, l, r) == {p \in vis : p[1] # l} \cup {<<l, r>>}

RECURSIVE ShadowParams(_, _, _, _)
ShadowParams(vis, ps1, ps2, i) ==
    IF i > Len(ps1) THEN vis
    ELSE ShadowParams(Shadow(vis, ps1[i].name, ps2[i].name), ps1, ps2, i + 1)

VisibleIn(x, y, i, vis) ==
    CASE x.kind = "Let" /\ y.kind = "Let" /\ i = 2 -> Shadow(vis, x.name, y.name)
      [] x.kind = "Lambda" /\ y.kind = "Lambda" /\ Len(x.params) = Len(y.params) ->
            ShadowParams(vis, x.params, y.params, 1)
      [] OTHER -> vis

RECURSIVE OneToOne(_, _, _)
OneToOne(x, y, vis) ==
    /\ \A p, q \in vis : p[2] = q[2] => p[1] = q[1]
    /\ Len(Children(x)) = Len(Children(y)) =>
            \A i \in 1..Len(Children(x)) :
                OneToOne(Children(x)[i], Children(y)[i], VisibleIn(x, y, i, vis))

-----------------------------------------------------------------------------
(* The second tree of a comparison: the first one itself, a renamed copy,   *)
(* a copy that differs in one field of one node, a leaf, or (for small      *)
(* trees and For nodes) any other tree of the same family.                 *)

\* A parameter list with one name or one type changed, or its last parameter dropped.
ParamVariants(ps) ==
    {[ps EXCEPT ![i].name = s] : i \in 1..Len(ps), s \in Syms}
    \cup {[ps EXCEPT ![i].ty = "I64"] : i \in 1..Len(ps)}
    \cup (IF ps = <<>> THEN {} ELSE {SubSeq(ps, 1, Len(ps) - 1)})

\* The node x with one non-expression field or its annotation changed.
NodeVariants(x) ==
    ({[x EXCEPT !.ty = "I64"]}
     \cup CASE x.kind = "BinOp" -> {[x EXCEPT !.op = k] : k \in {"Add", "Multiply"}}
            [] x.kind = "GetField" -> {[x EXCEPT !.index = 1]}
            [] x.kind = "BoolLiteral" -> {[x EXCEPT !.bval = ~@]}
            [] x.kind \in {"I32Literal", "I64Literal"} ->
                  {[x EXCEPT !.val = v] : v \in 0..MaxLit}
            [] x.kind \in {"F32Literal", "F64Literal"} ->
                  {[x EXCEPT !.fval = f] : f \in Floats}
            [] x.kind = "Ident" -> {[x EXCEPT !.sym = s] : s \in Syms}
            [] x.kind = "Let" -> {[x EXCEPT !.name = s] : s \in Syms}
            [] x.kind = "Lambda" -> {[x EXCEPT !.params = ps] : ps \in ParamVariants(x.params)}
            [] OTHER -> {}) \ {x}

Variants(e) ==
    UNION {{ReplaceAt(e, p, x) : x \in NodeVariants(Sub(e, p))} : p \in Positions(e)}

Renamed(e) == {Rename(e, rho, {}) : rho \in Injective \cup {Collapse}}

Others(e) ==
    {e} \cup Renamed(e) \cup Variants(e) \cup Atoms
    \cup (IF e \in Atoms \cup Level1 THEN Level1 ELSE {})
    \cup (IF e.kind = "For" THEN ForsOf(1) \cup ForsOf(2) ELSE {})

-----------------------------------------------------------------------------
(* Runs of compare_ignoring_symbols.                                       *)

None == "none"

InitCompare ==
    /\ call = "compare"
    /\ pc = "start"
    /\ e1 \in Trees
    /\ e2 \in Others(e1)
    /\ symbol = None
    /\ rw = None
    /\ result = None
    /\ pending = <<>>
    /\ log = <<>>

\* result = e1.compare_ignoring_symbols(&e2), with the number of node pairs the walk
\* examined.
Compare ==
    /\ call = "compare"
    /\ pc = "start"
    /\ result' = [res |-> compare_ignoring_symbols(e1, e2), n |-> CompareWalk(e1, e2).n]
    /\ pc' = "done"
    /\ UNCHANGED <<call, e1, e2, symbol, rw, pending, log>>

NextCompare == Compare

SpecCompare == InitCompare /\ [][NextCompare]_vars

Compared == call = "compare" /\ pc = "done"

-----------------------------------------------------------------------------
(* Properties of compare_ignoring_symbols.                                 *)

\* x with every literal value and every BinOp operator kind erased.
RECURSIVE Erase(_)
RECURSIVE EraseAll(_)
EraseAll(cs) == IF cs = <<>> THEN <<>> ELSE <<Erase(Head(cs))>> \o EraseAll(Tail(cs))

Erase(x) ==
    LET r == WithChildren(x, EraseAll(Children(x)))
    IN  CASE x.kind = "BinOp" -> [r EXCEPT !.op = "Add"]
          [] x.kind = "BoolLiteral" -> [r EXCEPT !.bval = TRUE]
          [] x.kind \in {"I32Literal", "I64Literal"} -> [r EXCEPT !.val = 0]
          [] x.kind \in {"F32Literal", "F64Literal"} -> [r EXCEPT !.fval = "0.0"]
          [] OTHER -> r

\* x and y have the same shape and differ, and only in literal values or BinOp kinds.
DiffersInLiteralOrOp(x, y) == x # y /\ Erase(x) = Erase(y)

\* The pre-order index of the first node at which such x and y differ.
FirstDiff(x, y) ==
    LET tx == traverse(x)
        ty == traverse(y)
    IN  Min({i \in 1..Len(tx) : OwnFields(tx[i].node) # OwnFields(ty[i].node)})

\* A tree holds the float NaN.
HasNaN(x) ==
    \E p \in Positions(x) :
        /\ Sub(x, p).kind \in {"F32Literal", "F64Literal"}
        /\ Sub(x, p).fval = "NaN"

\* C1 as stated: if e1 contains an Ident that no enclosing Let or Lambda parameter
\* of e1 binds, compare_ignoring_symbols returns an error (neither not-equal nor equal).
C1_FreeIdentIsError == (Compared /\ ~Closed(e1)) => result.res = "Err"

\* C1 amended: if e1 contains an Ident whose symbol no Let or Lambda earlier in the
\* walk (earlier in pre-order) has recorded, the result is never equal; it is the
\* error when the walk reaches the first such Ident opposite an Ident of the same
\* annotation, and not-equal only when an earlier pair or that pair mismatches.
C1_UnrecordedIdentNeverEqual ==
    (Compared /\ WalkFree(e1) # {}) =>
        LET f == Min(WalkFree(e1))
            p == PreOrder(e1)[f]
        IN  /\ result.res # "OkTrue"
            /\ result.n <= f
            /\ (/\ result.n = f
                /\ Sub(e2, p).kind = "Ident"
                /\ Sub(e2, p).ty = Sub(e1, p).ty) => result.res = "Err"
            /\ result.res = "Err" => result.n = f

\* C1 witness: the walk passes a binder and other nodes, then meets an unrecorded
\* Ident and ends with the error.
C1_Witness ==
    /\ Compared
    /\ e1.kind = "BinOp"
    /\ WalkFree(e1) # {}
    /\ Min(WalkFree(e1)) > 3
    /\ result.res = "Err"

\* C2 as stated: the result is equal only if the bound symbols correspond one to
\* one (no two different symbols visible at a place of e1 correspond to the same
\* symbol of e2), so that the trees are equal up to a consistent renaming.
C2_EqualOnlyIfOneToOne ==
    (Compared /\ result.res = "OkTrue") =>
        (OneToOne(e1, e2, {}) /\ AlphaEq(e1, e2, <<>>))

\* C3 as stated: a closed tree compared with its copy under one injective renaming
\* of its bound symbols returns equal.
C3_RenamedCopyIsEqual ==
    (/\ Compared
     /\ Closed(e1)
     /\ e2 # e1
     /\ e2 \in {Rename(e1, rho, {}) : rho \in Injective}) => result.res = "OkTrue"

\* C6 as stated: two trees of the same shape that differ only in a literal value or
\* a BinOp operator kind compare not-equal, never with an error.
C6_LiteralOrOpDiffIsNotEqual ==
    (Compared /\ DiffersInLiteralOrOp(e1, e2)) => result.res = "OkFalse"

\* C6 amended: ... compare not-equal, never with an error, provided every Ident of
\* the first tree that precedes the first differing position in pre-order has its
\* symbol recorded by a Let or Lambda earlier in the walk (as in any closed tree).
C6_DiffBeforeUnrecordedIdentIsNotEqual ==
    (/\ Compared
     /\ DiffersInLiteralOrOp(e1, e2)
     /\ \A i \in WalkFree(e1) : i > FirstDiff(e1, e2)) => result.res = "OkFalse"

\* C6 witness: closed trees with a bound Ident before the differing literal.
C6_Witness ==
    /\ Compared
    /\ DiffersInLiteralOrOp(e1, e2)
    /\ Closed(e1)
    /\ e1.kind = "Let"
    /\ FirstDiff(e1, e2) > 3
    /\ \E i \in 1..FirstDiff(e1, e2) : Sub(e1, PreOrder(e1)[i]).kind = "Ident"
    /\ result.res = "OkFalse"

\* C7 as stated: a For over two iters compared with a For over one iter returns
\* not-equal, and compared with its own consistently renamed copy returns equal.
C7_ForTwoItersAgainstOne ==
    (Compared /\ e1.kind = "For" /\ Len(e1.iters) = 2) =>
        /\ (e2.kind = "For" /\ Len(e2.iters) = 1) => result.res = "OkFalse"
        /\ e2 \in {Rename(e1, rho, {}) : rho \in Injective} => result.res = "OkTrue"

\* C8 as stated: a closed tree compared with itself returns equal.
C8_Reflexive == (Compared /\ Closed(e1) /\ e2 = e1) => result.res = "OkTrue"

\* Reflexivity and renaming where no float NaN is involved (C8 and C3 fail on
\* nothing else).
ReflexiveWithoutNaN ==
    (Compared /\ Closed(e1) /\ ~HasNaN(e1) /\ e2 \in {e1} \cup Renamed(e1)) =>
        result.res = "OkTrue"

-----------------------------------------------------------------------------
(* Runs of substitute.                                                     *)

\* The replacement expressions for symbol s: without symbols, with another symbol,
\* with s itself.
Replacements(s) ==
    {Lit(1), Var(Symbol("a", (s.id + 1) % (MaxId + 1))), Var(s),
     BinOp("I32", "Add", Var(s), Lit(0))}

InitSubstitute ==
    /\ call = "substitute"
    /\ pc = "start"
    /\ e1 \in Trees
    /\ symbol \in Syms
    /\ e2 \in Replacements(symbol)
    /\ rw = None
    /\ result = None
    /\ pending = <<>>
    /\ log = <<>>

\* e1.substitute(&symbol, &e2); result is the receiver afterwards.
Substitute ==
    /\ call = "substitute"
    /\ pc = "start"
    /\ result' = substitute(e1, symbol, e2)
    /\ pc' = "done"
    /\ UNCHANGED <<call, e1, e2, symbol, rw, pending, log>>

NextSubstitute == Substitute

SpecSubstitute == InitSubstitute /\ [][NextSubstitute]_vars

Substituted == call = "substitute" /\ pc = "done"

\* The positions of e at which a binder redefines s: the shadowed bodies.
ShadowedBodies(e, s) ==
    {p \o <<IF Sub(e, p).kind = "Let" THEN 2 ELSE 1>> :
        p \in {q \in Positions(e) : Binds(Sub(e, q), s)}}

\* What a node is apart from its sub-expressions: kind, annotation, every
\* non-expression field, and the number of its children.
Local(x) ==
    <<x.kind, x.ty, OwnFields(x), Len(Children(x)),
      CASE x.kind = "Ident" -> <<x.sym>>
        [] x.kind = "Let" -> <<x.name>>
        [] x.kind = "Lambda" -> [i \in 1..Len(x.params) |-> x.params[i].name]
        [] OTHER -> <<>>>>

\* C4: after e.substitute(s, r) every position where Ident(s) was free in e holds
\* r itself (not substituted into again), and Ident(s) is free in the result only
\* inside those inserted copies.
C4_FreeOccurrencesReplaced ==
    Substituted =>
        /\ \A p \in FreeOccurrences(e1, symbol) : HasPos(result, p) /\ Sub(result, p) = e2
        /\ FreeOccurrences(result, symbol) =
                {p \o q : p \in FreeOccurrences(e1, symbol), q \in FreeOccurrences(e2, symbol)}

\* C4 witness: the receiver is not the Ident itself, the symbol is free in the value
\* of a Let, and the replacement mentions the symbol again.
C4_Witness ==
    /\ Substituted
    /\ e1.kind = "Let"
    /\ <<1>> \in FreeOccurrences(e1, symbol)
    /\ Cardinality(FreeOccurrences(e1, symbol)) > 1
    /\ FreeOccurrences(e2, symbol) # {}
    /\ e2.kind = "BinOp"

\* C5: substitute leaves every shadowed body as it was, and every node that is not
\* a free Ident(s) keeps its kind, annotation and non-expression fields.
C5_ShadowedUnchanged ==
    Substituted =>
        /\ \A p \in ShadowedBodies(e1, symbol) :
                HasPos(result, p) /\ Sub(result, p) = Sub(e1, p)
        /\ \A p \in Positions(e1) \ FreeOccurrences(e1, symbol) :
                HasPos(result, p) /\ Local(Sub(result, p)) = Local(Sub(e1, p))

\* C5 witness: a Let redefines the symbol, its body mentions the symbol, its value
\* holds a free occurrence that is replaced.
C5_Witness ==
    /\ Substituted
    /\ e1.kind = "Let"
    /\ e1.name = symbol
    /\ e1.value = Var(symbol)
    /\ \E p \in Positions(e1.body) : Sub(e1.body, p) = Var(symbol)
    /\ result.value = e2
    /\ result.body = e1.body
    /\ result # e1

-----------------------------------------------------------------------------
(* Runs of traverse.                                                       *)

InitTraverse ==
    /\ call = "traverse"
    /\ pc = "start"
    /\ e1 \in Trees
    /\ e2 = None
    /\ symbol = None
    /\ rw = None
    /\ result = None
    /\ pending = <<>>
    /\ log = <<>>

\* e1.traverse(&mut func) with a func that records its argument.
Traverse ==
    /\ call = "traverse"
    /\ pc = "start"
    /\ log' = traverse(e1)
    /\ pc' = "done"
    /\ UNCHANGED <<call, e1, e2, symbol, rw, result, pending>>

NextTraverse == Traverse

SpecTraverse == InitTraverse /\ [][NextTraverse]_vars

Traversed == call = "traverse" /\ pc = "done"

\* size(e) = 1 + the sum of size over the children of e.
RECURSIVE Size(_)
RECURSIVE SizeAll(_)
SizeAll(cs) == IF cs = <<>> THEN 0 ELSE Size(Head(cs)) + SizeAll(Tail(cs))
Size(e) == 1 + SizeAll(Children(e))

\* The children of a For node in the order the data model gives: for each iter its
\* data, then start, end and stride when present; then builder; then func.
RECURSIVE ForOrder(_, _)
ForOrder(x, i) ==
    IF i > Len(x.iters) THEN <<x.builder, x.func>>
    ELSE LET it == x.iters[i]
         IN  <<it.data>>
             \o (IF Len(it.start) = 1 THEN <<it.start[1]>> ELSE <<>>)
             \o (IF Len(it.end) = 1 THEN <<it.end[1]>> ELSE <<>>)
             \o (IF Len(it.stride) = 1 THEN <<it.stride[1]>> ELSE <<>>)
             \o ForOrder(x, i + 1)

\* The positions of the whole tree, by the fields of each kind (not by children()).
FieldChildren(x) ==
    CASE x.kind = "BinOp" -> <<x.left, x.right>>
      [] x.kind = "Let" -> <<x.value, x.body>>
      [] x.kind = "Lambda" -> <<x.body>>
      [] x.kind \in {"MakeStruct", "MakeVector"} -> x.elems
      [] x.kind = "GetField" -> <<x.expr>>
      [] x.kind = "Length" -> <<x.data>>
      [] x.kind = "Merge" -> <<x.builder, x.value>>
      [] x.kind = "Res" -> <<x.builder>>
      [] x.kind = "For" -> ForOrder(x, 1)
      [] x.kind = "If" -> <<x.cond, x.on_true, x.on_false>>
      [] x.kind = "Apply" -> <<x.func>> \o x.params
      [] OTHER -> <<>>

\* p comes before q in pre-order: p is a proper ancestor of q, or at the first place
\* they differ p takes the earlier child.
Before(p, q) ==
    \/ IsAncestor(p, q)
    \/ \E k \in 1..Len(p) :
            /\ k <= Len(q)
            /\ SubSeq(p, 1, k - 1) = SubSeq(q, 1, k - 1)
            /\ p[k] < q[k]

\* C9: traverse calls the visitor size(e) times, once per node, each node before
\* its descendants and the children of a node in the order of the data model.
C9_PreOrder ==
    Traversed =>
        /\ Len(log) = Size(e1)
        /\ \A i \in 1..Len(log) : HasPos(e1, log[i].pos) /\ log[i].node = Sub(e1, log[i].pos)
        /\ \A i, j \in 1..Len(log) : i < j => Before(log[i].pos, log[j].pos)
        /\ \A i \in 1..Len(log) :
                LET x == log[i].node
                IN  \A k \in 1..Len(FieldChildren(x)) :
                        \E j \in (i + 1)..Len(log) :
                            /\ log[j].pos = log[i].pos \o <<k>>
                            /\ log[j].node = FieldChildren(x)[k]

\* C9 witness: a For over two iters, one of them with start, end and stride.
C9_Witness ==
    /\ Traversed
    /\ e1.kind = "For"
    /\ Len(e1.iters) = 2
    /\ Len(e1.iters[1].start) + Len(e1.iters[1].end) + Len(e1.iters[1].stride) = 3
    /\ Len(log) = 11

-----------------------------------------------------------------------------
(* Runs of transform.  The recursion is unrolled: pending holds, first to   *)
(* last, the positions whose transform() call is still to be made (the      *)
(* node being re-transformed after a replacement, or the rest of the loops  *)
(* over children_mut() of the calls in progress).                          *)

\* The closures handed to transform; none mutates its argument.
\*   decline: never replaces.      dec:  a positive I32Literal by its predecessor.
\*   fold:    a sum of two I32Literals by the literal.
\*   inline:  a Let by its body with the value substituted for the name.
\*   swap:    a BinOp by the BinOp with its operands exchanged (never declines on it).
Rewriters == {"decline", "dec", "fold", "inline", "swap"}

\* func(x): <<>> for None, <<y>> for Some(y).
Rewrite(f, x) ==
    CASE f = "dec" /\ x.kind = "I32Literal" /\ x.val > 0 -> <<[x EXCEPT !.val = @ - 1]>>
      [] f = "fold" /\ x.kind = "BinOp" /\ x.op = "Add"
            /\ x.left.kind = "I32Literal" /\ x.right.kind = "I32Literal" ->
                <<I32Literal(x.ty, x.left.val + x.right.val)>>
      [] f = "inline" /\ x.kind = "Let" -> <<substitute(x.body, x.name, x.value)>>
      [] f = "swap" /\ x.kind = "BinOp" -> <<[x EXCEPT !.left = x.right, !.right = x.left]>>
      [] OTHER -> <<>>

\* Mutant of AfterReplace: after `*self = e` the call falls through to the loop over
\* the children of the replacement instead of transforming the replacement itself.
AfterReplaceFallThrough(y, p, rest) == [i \in 1..Len(Children(y)) |-> p \o <<i>>] \o rest

\* `*self = e; return self.transform(func)`: the replaced node is transformed next.
AfterReplace(y, p, rest) == <<p>> \o rest

\* `for c in self.children_mut() { c.transform(func) }`: the children, in order.
AfterDecline(x, p, rest) == [i \in 1..Len(Children(x)) |-> p \o <<i>>] \o rest

InitTransform ==
    /\ call = "transform"
    /\ pc = "run"
    /\ e1 \in Trees
    /\ e2 = None
    /\ symbol = None
    /\ rw \in Rewriters
    /\ result = e1
    /\ pending = <<<<>>>>
    /\ log = <<>>

\* One call of transform() in which func returns Some(e).
Replace ==
    /\ call = "transform"
    /\ pc = "run"
    /\ pending # <<>>
    /\ Len(log) < MaxCalls
    /\ LET p == Head(pending)
           x == Sub(result, p)
           out == Rewrite(rw, x)
       IN  /\ out # <<>>
           /\ result' = ReplaceAt(result, p, out[1])
           /\ pending' = AfterReplace(out[1], p, Tail(pending))
           /\ log' = Append(log, [pos |-> p, arg |-> x, out |-> out])
    /\ UNCHANGED <<call, pc, e1, e2, symbol, rw>>

\* One call of transform() in which func returns None.
Decline ==
    /\ call = "transform"
    /\ pc = "run"
    /\ pending # <<>>
    /\ Len(log) < MaxCalls
    /\ LET p == Head(pending)
           x == Sub(result, p)
           out == Rewrite(rw, x)
       IN  /\ out = <<>>
           /\ pending' = AfterDecline(x, p, Tail(pending))
           /\ log' = Append(log, [pos |-> p, arg |-> x, out |-> out])
    /\ UNCHANGED <<call, pc, e1, e2, symbol, rw, result>>

\* The outermost transform() returns.
Return ==
    /\ call = "transform"
    /\ pc = "run"
    /\ pending = <<>>
    /\ pc' = "done"
    /\ UNCHANGED <<call, e1, e2, symbol, rw, result, pending, log>>

NextTransform == Replace \/ Decline \/ Return

SpecTransform == InitTransform /\ [][NextTransform]_vars

Transforming == call = "transform"

Transformed == call = "transform" /\ pc = "done"

Replaced(i) == log[i].out # <<>>

Declined(i) == log[i].out = <<>>

\* C10: (1) a replacement is spliced in and the rewriter is called next on it, at the
\* same node; (2) a call on a node follows a decline at each of its ancestors, after
\* which that ancestor is not called again, and calls proceed in enumeration order;
\* (3) when transform returns, every node of the tree has been declined as it stands;
\* (4) with the rewriter that always declines the tree is unchanged and the calls
\* are those of traverse.
C10_FixpointThenDescend ==
    Transforming =>
        /\ \A i \in 1..Len(log) : Replaced(i) =>
                IF i < Len(log)
                THEN log[i + 1].pos = log[i].pos /\ log[i + 1].arg = log[i].out[1]
                ELSE /\ Sub(result, log[i].pos) = log[i].out[1]
                     /\ pending # <<>>
                     /\ Head(pending) = log[i].pos
        /\ \A j \in 1..Len(log) : \A n \in 0..(Len(log[j].pos) - 1) :
                \E i \in 1..(j - 1) :
                    /\ log[i].pos = SubSeq(log[j].pos, 1, n)
                    /\ Declined(i)
                    /\ \A k \in (i + 1)..j : log[k].pos # log[i].pos
        /\ \A i, j \in 1..Len(log) : i < j =>
                \/ log[i].pos = log[j].pos /\ \A k \in i..(j - 1) : Replaced(k)
                \/ Before(log[i].pos, log[j].pos)
        /\ pc = "done" =>
                \A p \in Positions(result) : \E i \in 1..Len(log) :
                    /\ log[i].pos = p
                    /\ Declined(i)
                    /\ Local(log[i].arg) = Local(Sub(result, p))
        /\ (pc = "done" /\ rw = "decline") =>
                /\ result = e1
                /\ log = [i \in 1..Len(traverse(e1)) |->
                            [pos |-> traverse(e1)[i].pos, arg |-> traverse(e1)[i].node,
                             out |-> <<>>]]

\* C10 witness: a finished run in which a node was replaced twice in a row, then
\* declined, and its children were transformed afterwards.
C10_Witness ==
    /\ Transformed
    /\ \E i \in 1..Len(log) : \E j \in 1..Len(log) :
            /\ i + 2 < j
            /\ Replaced(i)
            /\ Replaced(i + 1)
            /\ Declined(i + 2)
            /\ IsAncestor(log[i].pos, log[j].pos)

=============================================================================
